---- MODULE Spec2Model ----
(***************************************************************************)
(* Count-Min Sketch of bloom-filters (src/src/count-min-sketch.ts).        *)
(*                                                                         *)
(* JavaScript arrays are objects: a matrix is an array of references to    *)
(* row arrays.  The model keeps the row arrays in a heap and lets a        *)
(* sketch, or an exported JSON record, hold a sequence of row references,  *)
(* so that sharing of rows between objects is visible.                     *)
(***************************************************************************)
EXTENDS Integers, Sequences, FiniteSets, TLC

VARIABLES sketches,   \* the CountMinSketch objects created so far, in creation order
          exported,   \* the JSON records produced by saveAsJSON, in creation order
          heap,       \* the row arrays: heap[r] is the row with reference r
          last,       \* the last call made and how it ended
          truth,      \* history, per sketch: what was passed to update, how it was made
          negative,   \* history: some update was given a negative count
          calls       \* history: the number of calls made

vars == <<sketches, exported, heap, last, truth, negative, calls>>

(***************************************************************************)
(* Bounds and input sets                                                   *)
(***************************************************************************)
MaxSketches == 3     \* sketches created in one run
MaxExports == 1      \* JSON records created in one run
MaxCalls == 5        \* calls made in one run, after the first construction

Elements == {"alice", "bob", "daniel"}   \* the elements asked about
Updated == {"alice", "bob"}              \* the elements given to update

\* (w, d) pairs given to the constructor; <<1, 2>> has more rows than columns
Shapes == {<<3, 2>>, <<3, 1>>, <<1, 2>>}

\* counts given to update; 1 is the default
Counts == {-1, 1}

\* a 64-bit seed is <<high 32 bits, low 32 bits>>
getDefaultSeed == <<18, 878082192>>        \* 0x1234567890
Seeds == {getDefaultSeed, <<0, 43981>>}    \* 0xABCD, the README's other seed

Fields == {"_matrix", "_seed", "_N", "_rows", "_columns"}
Types == {"CountMinSketch", "BloomFilter"}

\* the fields a record given to import may lack: none, any one, all
Missing == {{}} \cup {{f} : f \in Fields} \cup {Fields}

Infinity == 1000000   \* stands for JavaScript's Infinity: above every cell

Abs(n) == IF n < 0 THEN -n ELSE n
Range(s) == {s[i] : i \in 1..Len(s)}

(***************************************************************************)
(* utils: hashing and allocation (not in src/; modelled from the spec)     *)
(***************************************************************************)
Bytes(element) ==
  CASE element = "alice" -> 510     \* sum of the UTF-8 bytes
    [] element = "bob" -> 307
    [] element = "daniel" -> 621

\* stand-in for the seeded XXH64: deterministic in (element, seed)
XXH64(element, seed) ==
  (Bytes(element) * 7 + (seed[1] % 127) * 13 + (seed[2] % 127) * 5) % 127

\* (h1, h2): the hash under seed and under seed + 1
hashTwice(element, seed) ==
  <<XXH64(element, seed), XXH64(element, <<seed[1], seed[2] + 1>>)>>

RECURSIVE getDistinctIndicesBis(_, _, _, _, _, _)
getDistinctIndicesBis(h, size, number, i, tweak, indexes) ==
  IF Len(indexes) = number THEN indexes
  ELSE LET ind == (h[1] + i * h[2] + tweak) % size
       IN IF ind \in Range(indexes)
          THEN getDistinctIndicesBis(h, size, number, i, tweak + 1, indexes)
          ELSE getDistinctIndicesBis(h, size, number, i + 1, 0, Append(indexes, ind))

\* the call fails when more indices are asked for than the range holds
getDistinctIndicesFails(size, number) == number > size

\* number distinct 0-based indices below size
getDistinctIndices(element, size, number, seed) ==
  getDistinctIndicesBis(hashTwice(element, seed), size, number, 0, 0, <<>>)

\* an array of size copies of value
allocateArray(size, value) == [k \in 1..size |-> value]

(***************************************************************************)
(* Reading a matrix through the heap                                       *)
(***************************************************************************)
\* the numbers of a matrix, row by row
Cells(h, matrix) == [i \in 1..Len(matrix) |-> h[matrix[i]]]

\* this._matrix[i][j], i and j 0-based as in the source
Cell(h, matrix, i, j) == h[matrix[i + 1]][j + 1]

(***************************************************************************)
(* CountMinSketch                                                          *)
(***************************************************************************)
\* lines 117-119 with the first row mutated only: for (i = 0; i < 1; i++)
RECURSIVE updateRowsFirstOnly(_, _, _, _, _, _)
updateRowsFirstOnly(h, matrix, indexes, count, rows, i) ==
  IF i >= rows \/ i >= 1 THEN h
  ELSE updateRowsFirstOnly(
         [h EXCEPT ![matrix[i + 1]][indexes[i + 1] + 1] = @ + count],
         matrix, indexes, count, rows, i + 1)

\* lines 117-119 with -= for +=
RECURSIVE updateRowsMinus(_, _, _, _, _, _)
updateRowsMinus(h, matrix, indexes, count, rows, i) ==
  IF i >= rows THEN h
  ELSE updateRowsMinus(
         [h EXCEPT ![matrix[i + 1]][indexes[i + 1] + 1] = @ - count],
         matrix, indexes, count, rows, i + 1)

\* lines 117-119 with the first row skipped: for (i = 1; i < this._rows; i++)
RECURSIVE updateRowsSkipFirst(_, _, _, _, _, _)
updateRowsSkipFirst(h, matrix, indexes, count, rows, i) ==
  IF i >= rows THEN h
  ELSE updateRowsSkipFirst(
         IF i = 0 THEN h
         ELSE [h EXCEPT ![matrix[i + 1]][indexes[i + 1] + 1] = @ + count],
         matrix, indexes, count, rows, i + 1)

\* update's loop: this._matrix[i][indexes[i]] += count for i = 0 .. rows - 1
RECURSIVE updateRows(_, _, _, _, _, _)
updateRows(h, matrix, indexes, count, rows, i) ==
  IF i >= rows THEN h
  ELSE updateRows(
         [h EXCEPT ![matrix[i + 1]][indexes[i + 1] + 1] = @ + count],
         matrix, indexes, count, rows, i + 1)

\* count's loop with Math.max for Math.min
RECURSIVE countLoopMax(_, _, _, _, _, _)
countLoopMax(h, matrix, indexes, rows, i, min) ==
  IF i >= rows THEN min
  ELSE LET v == Cell(h, matrix, i, indexes[i + 1])
       IN countLoopMax(h, matrix, indexes, rows, i + 1,
                       IF min = Infinity \/ v > min THEN v ELSE min)

\* count's loop: min = Math.min(v, min) for i = 0 .. rows - 1
RECURSIVE countLoop(_, _, _, _, _, _)
countLoop(h, matrix, indexes, rows, i, min) ==
  IF i >= rows THEN min
  ELSE LET v == Cell(h, matrix, i, indexes[i + 1])
       IN countLoop(h, matrix, indexes, rows, i + 1, IF v < min THEN v ELSE min)

\* count(element) fails when getDistinctIndices does
countFails(this) == getDistinctIndicesFails(this.columns, this.rows)

\* count(element) with Math.max for Math.min
countMax(h, this, element) ==
  countLoopMax(h, this.matrix,
               getDistinctIndices(element, this.columns, this.rows, this.seed),
               this.rows, 0, Infinity)

\* the value count(element) returns on sketch this, read in heap h
count(h, this, element) ==
  countLoop(h, this.matrix,
            getDistinctIndices(element, this.columns, this.rows, this.seed),
            this.rows, 0, Infinity)

\* this._N++ for this._N += count
addToNOne(N, c) == N + 1

\* line 115: this._N += count
addToN(N, c) == N + c

\* merge's loops: this._matrix[i][j] += sketch._matrix[i][j], row by row, cell by cell
RECURSIVE mergeCells(_, _, _, _, _, _)
mergeCells(h, mine, theirs, rows, columns, n) ==
  IF n >= rows * columns THEN h
  ELSE LET i == n \div columns
           j == n % columns
       IN mergeCells(
            [h EXCEPT ![mine[i + 1]][j + 1] = @ + Cell(h, theirs, i, j)],
            mine, theirs, rows, columns, n + 1)

NoTruth ==
  [origin |-> "new", tc |-> [x \in Elements |-> 0], reseeded |-> FALSE, merged |-> FALSE]

Call(op, err) == [op |-> op, err |-> err]

\* one more call, within the bound
Step == calls < MaxCalls /\ calls' = calls + 1

\* the object new CountMinSketch(w, d, seed) makes, its rows placed at top + 1,
\* top + 2, ...: the seed parameter is never stored, the object keeps the seed
\* its base class gives it
Constructed(w, d, seed, top) ==
  [columns |-> w, rows |-> d,
   matrix |-> [i \in 1..d |-> top + i],
   N |-> 0,
   seed |-> getDefaultSeed]

\* the state after a first new CountMinSketch(3, 2)
Init ==
  /\ sketches = <<Constructed(3, 2, getDefaultSeed, 0)>>
  /\ exported = <<>>
  /\ heap = allocateArray(2, allocateArray(3, 0))
  /\ last = Call("new", "ok")
  /\ truth = <<NoTruth>>
  /\ negative = FALSE
  /\ calls = 0

\* new CountMinSketch(w, d, seed)
CountMinSketch(w, d, seed) ==
  /\ Step
  /\ Len(sketches) < MaxSketches
  /\ sketches' = Append(sketches, Constructed(w, d, seed, Len(heap)))
  /\ heap' = heap \o allocateArray(d, allocateArray(w, 0))
  /\ truth' = Append(truth, NoTruth)
  /\ last' = Call("new", "ok")
  /\ UNCHANGED <<exported, negative>>

\* sketch.update(element, count)
update(s, element, c) ==
  /\ Step
  /\ s \in 1..Len(sketches)
  /\ LET this == sketches[s]
         N1 == addToN(this.N, c)
     IN IF getDistinctIndicesFails(this.columns, this.rows)
        THEN /\ sketches' = [sketches EXCEPT ![s].N = N1]
             /\ heap' = heap
             /\ last' = Call("update", "ParameterError")
        ELSE LET indexes == getDistinctIndices(element, this.columns, this.rows, this.seed)
             IN /\ sketches' = [sketches EXCEPT ![s].N = N1]
                /\ heap' = updateRows(heap, this.matrix, indexes, c, this.rows, 0)
                /\ last' = Call("update", "ok")
  /\ truth' = [truth EXCEPT ![s].tc[element] = @ + c]
  /\ negative' = (negative \/ c < 0)
  /\ UNCHANGED exported

\* sketch.count(element): a query
countCall(s, element) ==
  /\ Step
  /\ s \in 1..Len(sketches)
  /\ last' = Call("count", IF countFails(sketches[s]) THEN "ParameterError" ELSE "ok")
  /\ UNCHANGED <<sketches, exported, heap, truth, negative>>

\* sketch.seed = v
setSeed(s, v) ==
  /\ Step
  /\ s \in 1..Len(sketches)
  /\ sketches' = [sketches EXCEPT ![s].seed = v]
  /\ truth' = [truth EXCEPT ![s].reseeded =
                 @ \/ (v # sketches[s].seed /\ \E x \in Elements : truth[s].tc[x] # 0)]
  /\ last' = Call("seed", "ok")
  /\ UNCHANGED <<exported, heap, negative>>

\* a.merge(b)
merge(a, b) ==
  /\ Step
  /\ a \in 1..Len(sketches)
  /\ b \in 1..Len(sketches)
  /\ LET this == sketches[a]
         sketch == sketches[b]
     IN IF this.columns # sketch.columns \/ this.rows # sketch.rows
        THEN /\ heap' = heap
             /\ truth' = truth
             /\ last' = Call("merge", "Error")
        ELSE /\ heap' = mergeCells(heap, this.matrix, sketch.matrix,
                                   this.rows, this.columns, 0)
             /\ truth' = [truth EXCEPT ![a].merged = TRUE]
             /\ last' = Call("merge", "ok")
  /\ UNCHANGED <<sketches, exported, negative>>

\* s.clone() with sketch._matrix = this._matrix for lines 159-160: the copy
\* holds the row arrays of s
cloneShallow(s) ==
  /\ Step
  /\ s \in 1..Len(sketches)
  /\ Len(sketches) < MaxSketches
  /\ sketches' = Append(sketches, [sketches[s] EXCEPT !.N = 0])
  /\ truth' = Append(truth, [NoTruth EXCEPT !.origin = "clone"])
  /\ last' = Call("clone", "ok")
  /\ UNCHANGED <<exported, heap, negative>>

\* s.clone(): a new sketch of the same shape, merged with s, then given s's seed
clone(s) ==
  /\ Step
  /\ s \in 1..Len(sketches)
  /\ Len(sketches) < MaxSketches
  /\ LET this == sketches[s]
         top == Len(heap)
         sketch == [Constructed(this.columns, this.rows, getDefaultSeed, top)
                      EXCEPT !.seed = this.seed]
         fresh == heap \o allocateArray(this.rows, allocateArray(this.columns, 0))
     IN /\ sketches' = Append(sketches, sketch)
        /\ heap' = mergeCells(fresh, sketch.matrix, this.matrix,
                              sketch.rows, sketch.columns, 0)
  /\ truth' = Append(truth, [NoTruth EXCEPT !.origin = "clone"])
  /\ last' = Call("clone", "ok")
  /\ UNCHANGED <<exported, negative>>

(***************************************************************************)
(* Export and import (the @Exportable decorator, lines 42-54)              *)
(***************************************************************************)
\* every field named is a field of the record
assertFields(json, fields) == fields \subseteq json.fields

\* the record of obj: the type tag and a deep copy of the fields, the rows of
\* the matrix placed at top + 1, top + 2, ...
cloneObject(type, obj, top) ==
  [type |-> type, fields |-> Fields,
   columns |-> obj.columns, rows |-> obj.rows,
   matrix |-> [i \in 1..Len(obj.matrix) |-> top + i],
   N |-> obj.N, seed |-> obj.seed]

\* s.saveAsJSON()
saveAsJSON(s) ==
  /\ Step
  /\ s \in 1..Len(sketches)
  /\ Len(exported) < MaxExports
  /\ exported' = Append(exported, cloneObject("CountMinSketch", sketches[s], Len(heap)))
  /\ heap' = heap \o Cells(heap, sketches[s].matrix)
  /\ last' = Call("saveAsJSON", "ok")
  /\ UNCHANGED <<sketches, truth, negative>>

\* the record read by an import: record j as exported, or with another type
\* tag, or with some fields deleted
Record(j, type, missing) ==
  [exported[j] EXCEPT !.type = type, !.fields = Fields \ missing]

\* line 45 without the assertFields test
importRefusesTypeOnly(json) == json.type # "CountMinSketch"

\* import's check, line 45: TRUE when the record is refused
importRefuses(json) ==
  json.type # "CountMinSketch" \/ ~assertFields(json, Fields)

\* lines 48-51 without sketch.seed = json._seed
importSketchNoSeed(json) ==
  [columns |-> json.columns, rows |-> json.rows,
   matrix |-> json.matrix,
   N |-> json.N,
   seed |-> getDefaultSeed]

\* the sketch import builds from an accepted record, lines 48-51; the outer
\* array of the matrix is copied by slice(), the row arrays are not
importSketch(json) ==
  [columns |-> json.columns, rows |-> json.rows,
   matrix |-> json.matrix,
   N |-> json.N,
   seed |-> json.seed]

\* CountMinSketch.fromJSON(json)
fromJSON(j, type, missing) ==
  /\ Step
  /\ j \in 1..Len(exported)
  /\ LET json == Record(j, type, missing)
     IN IF importRefuses(json)
        THEN /\ sketches' = sketches
             /\ truth' = truth
             /\ last' = Call("fromJSON", "Error")
        ELSE /\ Len(sketches) < MaxSketches
             /\ sketches' = Append(sketches, importSketch(json))
             /\ truth' = Append(truth, [NoTruth EXCEPT !.origin = "import"])
             /\ last' = Call("fromJSON", "ok")
  /\ UNCHANGED <<exported, heap, negative>>

Next ==
  \/ \E sh \in Shapes, v \in Seeds : CountMinSketch(sh[1], sh[2], v)
  \/ \E s \in 1..MaxSketches, x \in Updated, c \in Counts : update(s, x, c)
  \/ \E s \in 1..MaxSketches, x \in Elements : countCall(s, x)
  \/ \E s \in 1..MaxSketches, v \in Seeds : setSeed(s, v)
  \/ \E a \in 1..MaxSketches, b \in 1..MaxSketches : merge(a, b)
  \/ \E s \in 1..MaxSketches : clone(s)
  \/ \E s \in 1..MaxSketches : saveAsJSON(s)
  \/ \E j \in 1..MaxExports, t \in Types, m \in Missing : fromJSON(j, t, m)

Spec == Init /\ [][Next]_vars

(***************************************************************************)
(* Vocabulary of the properties                                            *)
(***************************************************************************)
Sketches == 1..Len(sketches)

\* the numbers of sketch s's matrix, now and after the step
Matrix(s) == Cells(heap, sketches[s].matrix)
MatrixAfter(s) == Cells(heap', sketches'[s].matrix)

\* count(x) is defined on sketch s
Countable(s) == ~countFails(sketches[s])

\* the value of s.count(x), now and after the step
CountOf(s, x) == count(heap, sketches[s], x)
CountAfter(s, x) == count(heap', sketches'[s], x)

\* the total weight passed to s.update(x, .)
TrueCount(s, x) == truth[s].tc[x]

\* the sum of the weights of all update calls on s
TotalWeight(s) == TrueCount(s, "alice") + TrueCount(s, "bob") + TrueCount(s, "daniel")

\* s was made by the constructor and has since seen update and count calls
\* only, its seed fixed before its first update
OnlyUpdated(s) ==
  truth[s].origin = "new" /\ ~truth[s].reseeded /\ ~truth[s].merged

\* the 0-based index of x's cell in row i (0-based) of sketch s
IndexOf(s, x, i) ==
  getDistinctIndices(x, sketches[s].columns, sketches[s].rows, sketches[s].seed)[i + 1]

\* x has a row of s where no other updated element shares its cell
HasOwnRow(s, x) ==
  \E i \in 0..(sketches[s].rows - 1) :
    \A y \in Elements \ {x} :
      TrueCount(s, y) # 0 => IndexOf(s, y, i) # IndexOf(s, x, i)

\* the matrix of one fresh w x d sketch with the given seed after update(x, tc[x])
\* for every element x
RECURSIVE StreamHeap(_, _, _, _, _, _)
StreamHeap(h, w, d, seed, tc, todo) ==
  IF todo = {} THEN h
  ELSE LET x == CHOOSE y \in todo : TRUE
       IN StreamHeap(updateRows(h, [i \in 1..d |-> i],
                                getDistinctIndices(x, w, d, seed), tc[x], d, 0),
                     w, d, seed, tc, todo \ {x})

SingleSketch(w, d, seed, tc) ==
  StreamHeap(allocateArray(d, allocateArray(w, 0)), w, d, seed, tc, Elements)

\* the same shape and the same seed
SameShape(a, b) ==
  /\ sketches[a].columns = sketches[b].columns
  /\ sketches[a].rows = sketches[b].rows
Compatible(a, b) == SameShape(a, b) /\ sketches[a].seed = sketches[b].seed

\* record json holds exactly what sketch s holds
IsExportOf(h, json, sk) ==
  /\ json.type = "CountMinSketch"
  /\ json.fields = Fields
  /\ json.columns = sk.columns
  /\ json.rows = sk.rows
  /\ json.N = sk.N
  /\ json.seed = sk.seed
  /\ Cells(h, json.matrix) = Cells(h, sk.matrix)

(***************************************************************************)
(* C1                                                                      *)
(***************************************************************************)
\* C1, as stated: in every reachable state, for every sketch and every element
\* x on which count is defined, count(x) >= the total weight passed to update
\* for x on that sketch.
C1_NeverUnderestimates ==
  \A s \in Sketches : \A x \in Elements :
    Countable(s) => CountOf(s, x) >= TrueCount(s, x)

\* C1, amended: as long as no update was given a negative count and the
\* sketch's seed was not changed after its first update, count(x) >= the total
\* weight passed to update for x on that sketch, wherever count is defined.
C1_NeverUnderestimatesNonNegative ==
  ~negative =>
    \A s \in Sketches : \A x \in Elements :
      (Countable(s) /\ ~truth[s].reseeded) => CountOf(s, x) >= TrueCount(s, x)

\* alice and bob share their only cell: alice, updated once, counts 2
C1_Witness ==
  /\ ~negative
  /\ \E s \in Sketches :
       /\ Countable(s) /\ ~truth[s].reseeded
       /\ TrueCount(s, "alice") = 1 /\ TrueCount(s, "bob") = 1
       /\ CountOf(s, "alice") = 2

(***************************************************************************)
(* C2                                                                      *)
(***************************************************************************)
\* C2: a successful update(x) with the default count 1 never decreases
\* count(y), for y = x and for every other element y, on any sketch.
C2_UpdateMonotone ==
  [][\A s \in 1..MaxSketches : \A x \in Updated :
       (last'.op = "update" /\ update(s, x, 1) /\ Countable(s)) =>
         \A t \in Sketches : \A y \in Elements :
           Countable(t) => CountAfter(t, y) >= CountOf(t, y)]_vars

\* after two successive update("alice"), count("alice") is 2
C2_Witness ==
  /\ last = Call("update", "ok")
  /\ ~negative
  /\ \E s \in Sketches :
       /\ Countable(s)
       /\ TrueCount(s, "alice") = 2
       /\ CountOf(s, "alice") = 2

(***************************************************************************)
(* C3                                                                      *)
(***************************************************************************)
\* C3: on a constructed sketch with at least one row that has seen only
\* updates with non-negative counts, an element with a row in which no other
\* updated element shares its cell counts exactly the total weight updated
\* for it; a never-updated element with such a row counts 0.
C3_ExactWithoutCollision ==
  ~negative =>
    \A s \in Sketches : \A x \in Elements :
      (OnlyUpdated(s) /\ sketches[s].rows >= 1 /\ Countable(s) /\ HasOwnRow(s, x))
        => CountOf(s, x) = TrueCount(s, x)

\* alice twice, bob once: alice 2, bob 1, daniel 0, although alice and bob
\* share a cell in one row
C3_Witness ==
  /\ ~negative
  /\ \E s \in Sketches :
       /\ OnlyUpdated(s) /\ Countable(s) /\ sketches[s].rows = 2
       /\ TrueCount(s, "alice") = 2 /\ TrueCount(s, "bob") = 1
       /\ \A x \in Elements : HasOwnRow(s, x)
       /\ \E i \in 0..1 : IndexOf(s, "alice", i) = IndexOf(s, "bob", i)
       /\ CountOf(s, "alice") = 2
       /\ CountOf(s, "bob") = 1
       /\ CountOf(s, "daniel") = 0

(***************************************************************************)
(* C4                                                                      *)
(***************************************************************************)
\* C4: a constructed sketch has N = the sum of the counts of all the update
\* calls made on it (0 when fresh); no other call changes N.
C4_NIsTotal ==
  \A s \in Sketches :
    truth[s].origin = "new" => sketches[s].N = TotalWeight(s)

\* two updates and a merge into the sketch later, N is 2
C4_Witness ==
  \E s \in Sketches :
    /\ truth[s].origin = "new"
    /\ truth[s].merged
    /\ TrueCount(s, "alice") = 1 /\ TrueCount(s, "bob") = 1
    /\ sketches[s].N = 2

(***************************************************************************)
(* C5                                                                      *)
(***************************************************************************)
\* C5: when two sketches a and b have the same w, d and seed, a.merge(b) sets
\* every cell of a to its old value plus b's cell and leaves b unchanged; when
\* both have seen updates only, a's matrix is then the matrix of one sketch
\* given the updates of both.
C5_MergeSums ==
  [][\A a \in 1..MaxSketches : \A b \in 1..MaxSketches :
       (a # b /\ last'.op = "merge" /\ merge(a, b) /\ Compatible(a, b)) =>
         /\ \A i \in 0..(sketches[a].rows - 1) : \A j \in 0..(sketches[a].columns - 1) :
              Cell(heap', sketches'[a].matrix, i, j) =
                Cell(heap, sketches[a].matrix, i, j) + Cell(heap, sketches[b].matrix, i, j)
         /\ MatrixAfter(b) = Matrix(b)
         /\ sketches'[b] = sketches[b]
         /\ (Countable(a) /\ OnlyUpdated(a) /\ OnlyUpdated(b)) =>
              MatrixAfter(a) =
                SingleSketch(sketches[a].columns, sketches[a].rows, sketches[a].seed,
                             [x \in Elements |-> TrueCount(a, x) + TrueCount(b, x)])]_vars

(***************************************************************************)
(* C6                                                                      *)
(***************************************************************************)
\* C6: a.merge(b) fails with an error whenever a and b differ in w, in d or
\* in seed, and then changes no sketch.
C6_MergeRejects ==
  [][\A a \in 1..MaxSketches : \A b \in 1..MaxSketches :
       (last'.op = "merge" /\ merge(a, b) /\ ~Compatible(a, b)) =>
         /\ last'.err = "Error"
         /\ sketches' = sketches
         /\ heap' = heap]_vars

(***************************************************************************)
(* C7                                                                      *)
(***************************************************************************)
\* C7: s.clone() returns a sketch with s's w, d, matrix, seed and N, and
\* leaves s unchanged.
C7_CloneCopies ==
  [][\A s \in 1..MaxSketches :
       (last'.op = "clone" /\ clone(s)) =>
         LET c == Len(sketches')
         IN /\ sketches'[c].columns = sketches[s].columns
            /\ sketches'[c].rows = sketches[s].rows
            /\ MatrixAfter(c) = Matrix(s)
            /\ sketches'[c].seed = sketches[s].seed
            /\ sketches'[c].N = sketches[s].N
            /\ sketches'[s] = sketches[s]
            /\ MatrixAfter(s) = Matrix(s)]_vars

(***************************************************************************)
(* C8                                                                      *)
(***************************************************************************)
\* C8: saveAsJSON of a sketch gives a record holding the sketch's w, d, seed,
\* N and matrix, and importing a record that holds what a sketch S holds
\* gives a sketch with the same w, d, seed, N and matrix as S, so that both
\* count every element alike.
C8_RoundTrip ==
  [][/\ \A s \in 1..MaxSketches :
          (last'.op = "saveAsJSON" /\ saveAsJSON(s)) =>
            IsExportOf(heap', exported'[Len(exported')], sketches'[s])
     /\ \A j \in 1..MaxExports :
          (last'.op = "fromJSON" /\ fromJSON(j, "CountMinSketch", {})) =>
            \A s \in Sketches :
              IsExportOf(heap, exported[j], sketches[s]) =>
                LET n == Len(sketches')
                IN /\ sketches'[n].columns = sketches[s].columns
                   /\ sketches'[n].rows = sketches[s].rows
                   /\ sketches'[n].seed = sketches[s].seed
                   /\ sketches'[n].N = sketches[s].N
                   /\ MatrixAfter(n) = MatrixAfter(s)
                   /\ Countable(s) =>
                        \A x \in Elements : CountAfter(n, x) = CountAfter(s, x)]_vars

\* an updated sketch with a changed seed and the sketch imported from its export
C8_Witness ==
  /\ last = Call("fromJSON", "ok")
  /\ \E s \in Sketches :
       LET n == Len(sketches)
       IN /\ s # n
          /\ truth[n].origin = "import"
          /\ Countable(s)
          /\ sketches[s].seed # getDefaultSeed
          /\ sketches[s].N = 1
          /\ IsExportOf(heap, exported[1], sketches[s])
          /\ sketches[n].seed = sketches[s].seed
          /\ Matrix(n) = Matrix(s)
          /\ CountOf(n, "alice") = 1

(***************************************************************************)
(* C9                                                                      *)
(***************************************************************************)
\* C9: importing a record with another type tag than CountMinSketch, or
\* without one of _matrix, _seed, _N, _rows, _columns, fails with an error and
\* makes no sketch; importing an exported record with the right tag and all
\* five fields makes a sketch.
C9_ImportValidates ==
  [][last'.op = "fromJSON" =>
       \A j \in 1..MaxExports : \A t \in Types : \A m \in Missing :
         fromJSON(j, t, m) =>
           IF t # "CountMinSketch" \/ m # {}
           THEN /\ last'.err = "Error"
                /\ sketches' = sketches
                /\ heap' = heap
           ELSE /\ last'.err = "ok"
                /\ Len(sketches') = Len(sketches) + 1]_vars

\* an import was refused after an earlier one was accepted
C9_Witness ==
  /\ last = Call("fromJSON", "Error")
  /\ \E s \in Sketches : truth[s].origin = "import"

(***************************************************************************)
(* C10                                                                     *)
(***************************************************************************)
\* C10: an update that fails because the sketch has more rows than columns
\* leaves the sketch's matrix, N and seed as they were.
C10_FailedUpdateUnchanged ==
  [][\A s \in 1..MaxSketches : \A x \in Updated : \A c \in Counts :
       (last'.op = "update" /\ update(s, x, c) /\ ~Countable(s)) =>
         /\ last'.err = "ParameterError"
         /\ sketches'[s] = sketches[s]
         /\ MatrixAfter(s) = Matrix(s)]_vars

(***************************************************************************)
(* C11                                                                     *)
(***************************************************************************)
\* C11: a successful s.update(x, c) adds c to the cell of row i at the i-th
\* index computed for x under s's seed, in each of s's d rows, adds c to N and
\* leaves every other cell of s, w, d and the seed unchanged; s.count(x)
\* changes no sketch, no row and no record.
C11_UpdateFrame ==
  [][/\ last'.op = "update" =>
          \A s \in 1..MaxSketches : \A x \in Updated : \A c \in Counts :
            (update(s, x, c) /\ Countable(s)) =>
              /\ last'.err = "ok"
              /\ \A i \in 0..(sketches[s].rows - 1) :
                   \A j \in 0..(sketches[s].columns - 1) :
                     Cell(heap', sketches'[s].matrix, i, j) =
                       Cell(heap, sketches[s].matrix, i, j)
                         + (IF j = IndexOf(s, x, i) THEN c ELSE 0)
              /\ sketches'[s].N = sketches[s].N + c
              /\ sketches'[s].columns = sketches[s].columns
              /\ sketches'[s].rows = sketches[s].rows
              /\ sketches'[s].seed = sketches[s].seed
              /\ Len(MatrixAfter(s)) = sketches[s].rows
     /\ last'.op = "count" =>
          \A s \in 1..MaxSketches : \A x \in Elements :
            countCall(s, x) =>
              /\ sketches' = sketches
              /\ heap' = heap
              /\ exported' = exported]_vars

\* update("bob", -1) on a 3 x 2 sketch with a changed seed: one cell of each
\* row holds -1, at bob's index for that row, every other cell 0, and N is -1
C11_Witness ==
  /\ last = Call("update", "ok")
  /\ \E s \in Sketches :
       /\ sketches[s].columns = 3 /\ sketches[s].rows = 2
       /\ sketches[s].seed # getDefaultSeed
       /\ OnlyUpdated(s)
       /\ TrueCount(s, "bob") = -1 /\ TrueCount(s, "alice") = 0
       /\ sketches[s].N = -1
       /\ \A i \in 0..1 : \A j \in 0..2 :
            Cell(heap, sketches[s].matrix, i, j) =
              (IF j = IndexOf(s, "bob", i) THEN -1 ELSE 0)

(***************************************************************************)
(* C12                                                                     *)
(***************************************************************************)
\* the step is an update, a merge or a seed change applied to sketch a
AppliedTo(a) ==
  \/ \E x \in Updated : \E c \in Counts : update(a, x, c)
  \/ \E b \in 1..MaxSketches : merge(a, b)
  \/ \E v \in Seeds : setSeed(a, v)

\* the step leaves sketch t as it was: matrix, N, seed and every count
SketchUnchanged(t) ==
  /\ sketches'[t] = sketches[t]
  /\ MatrixAfter(t) = Matrix(t)
  /\ Countable(t) => \A x \in Elements : CountAfter(t, x) = CountOf(t, x)

\* C12: a sketch made by clone shares nothing with the sketch it was cloned
\* from, nor with any other: an update, merge or seed change applied to the
\* clone leaves every other sketch's matrix, N, seed and counts unchanged,
\* and one applied to any other sketch leaves the clone unchanged.
C12_CloneIsDeep ==
  [][last'.op \in {"update", "merge", "seed"} =>
       \A a \in Sketches : AppliedTo(a) =>
         \A t \in Sketches \ {a} :
           (truth[a].origin = "clone" \/ truth[t].origin = "clone") =>
             SketchUnchanged(t)]_vars

\* S.update("alice"); C = S.clone(); C.update("alice"): C counts 2, S still 1
C12_Witness ==
  /\ last = Call("update", "ok")
  /\ \E s \in Sketches : \E c \in Sketches :
       /\ truth[s].origin = "new" /\ truth[c].origin = "clone"
       /\ SameShape(s, c) /\ Countable(s)
       /\ sketches[s].seed = sketches[c].seed
       /\ TrueCount(s, "alice") = 1 /\ TrueCount(s, "bob") = 0
       /\ TrueCount(c, "alice") = 1 /\ TrueCount(c, "bob") = 0
       /\ ~truth[s].merged /\ ~truth[c].merged
       /\ CountOf(s, "alice") = 1
       /\ CountOf(c, "alice") = 2

(***************************************************************************)
(* C13                                                                     *)
(***************************************************************************)
\* C13: new CountMinSketch(w, d, seed) gives a sketch whose seed is the seed
\* passed (the default seed 0x1234567890 when none is passed), and after
\* sketch.seed = v the sketch's seed is v.
C13_ConstructorSeed ==
  [][/\ last'.op = "new" =>
          \A sh \in Shapes : \A v \in Seeds :
            CountMinSketch(sh[1], sh[2], v) =>
              sketches'[Len(sketches')].seed = v
     /\ last'.op = "seed" =>
          \A s \in 1..MaxSketches : \A v \in Seeds :
            setSeed(s, v) => sketches'[s].seed = v]_vars

(***************************************************************************)
(* C14                                                                     *)
(***************************************************************************)
\* the sum of the numbers of a row
RECURSIVE RowSum(_)
RowSum(row) == IF row = <<>> THEN 0 ELSE Head(row) + RowSum(Tail(row))

\* C14: in every state reached from fresh sketches by update, merge and clone
\* (and count and seed changes, which touch neither cells nor N; no record
\* has been exported, so no sketch was imported), every row of every
\* sketch's matrix sums to the sketch's N.  Stated for the sketches on which
\* update succeeds (d <= w).
C14_RowSumIsN ==
  exported = <<>> =>
    \A s \in Sketches :
      Countable(s) =>
        \A i \in 1..sketches[s].rows : RowSum(Matrix(s)[i]) = sketches[s].N

(***************************************************************************)
(* C15                                                                     *)
(***************************************************************************)
\* C15: an update or a merge applied to an imported sketch changes neither
\* the matrix stored in any exported record nor the matrix of any other
\* imported sketch.
C15_ImportIndependent ==
  [][last'.op \in {"update", "merge"} =>
       \A a \in Sketches :
         (truth[a].origin = "import" /\
            (\/ \E x \in Updated : \E c \in Counts : update(a, x, c)
             \/ \E b \in 1..MaxSketches : merge(a, b))) =>
           /\ \A j \in 1..Len(exported) :
                Cells(heap', exported'[j].matrix) = Cells(heap, exported[j].matrix)
           /\ \A t \in Sketches \ {a} :
                truth[t].origin = "import" => MatrixAfter(t) = Matrix(t)]_vars
====
